---- MODULE Spec2Model ----
(***************************************************************************)
(* Model of preprocess_own.py: the melody corpus preprocessing pipeline.   *)
(*                                                                         *)
(* Quarter lengths are held as integers counting eighths of a quarter      *)
(* note, so 0.25 is 2, 0.375 is 3, 0.5 is 4 and 4.0 is 32.  A text (a      *)
(* Python str) is a sequence of atoms: the atom " " is one blank, every    *)
(* other atom is the spelling of one symbol ("60", "r", "_", "/").         *)
(***************************************************************************)
EXTENDS Integers, Sequences, FiniteSets, TLC

VARIABLES
    pc,             \* position in the run
    song,           \* the score handed to the filter and the encoder
    acceptable,     \* the acceptable_durations argument
    time_step,      \* the time_step argument
    accepted,       \* result of has_acceptable_durations
    encoded,        \* result of encode_song: [err, text]
    songs,          \* the list returned by load_songs_in_kern
    idx,            \* the loop index i of preprocess
    dataset,        \* SAVE_DIR: file name (an index) -> text
    raised,         \* the exception that ended preprocess, or "none"
    visited,        \* order in which os.walk yielded the files of SAVE_DIR
    boundary,       \* sequence_length given to create_single_file_dataset
    returned,       \* the str returned by create_single_file_dataset
    file_dataset,   \* the text written to SINGLE_FILE_DATASET
    origin,         \* history: for each atom of returned, the file it was read from (-1: added)
    mapping,        \* the content of MAPPING_PATH
    seq_len,        \* sequence_length given to generate_training_sequences
    int_songs,      \* the integer codes computed by convert_songs_to_int
    inputs,         \* the one-hot inputs returned by generate_training_sequences
    targets         \* the targets returned by generate_training_sequences

vars == <<pc, song, acceptable, time_step, accepted, encoded, songs, idx,
          dataset, raised, visited, boundary, returned, file_dataset, origin,
          mapping, seq_len, int_songs, inputs, targets>>

(***************************************************************************)
(* Bounds of the model.                                                    *)
(***************************************************************************)
MaxEvents == 2      \* events per score given to the filter and the encoder
MaxQl == 8          \* largest event duration tried, in eighths of a quarter
MaxSongs == 2       \* scores in the raw corpus
MaxFiles == 2       \* encoded files in SAVE_DIR when the corpus is assembled
MaxSeqLen == 2      \* largest sequence_length tried

(***************************************************************************)
(* Constants of the program.                                               *)
(***************************************************************************)
\* ACCEPTABLE_DURATIONS, in eighths of a quarter note
ACCEPTABLE_DURATIONS == <<2, 4, 6, 8, 12, 16, 24, 32>>

\* the default time_step of encode_song (0.25)
DefaultTimeStep == 2

Blank == " "
Carry == "_"
RestSymbol == "r"
Delimiter == "/"
Unbound == "<unbound>"

\* the empty record of a call that has not returned yet
NoResult == [err |-> "pending", text |-> <<>>]

(***************************************************************************)
(* Scores.  An event of song.flat.notesAndRests is a Note, a Rest or       *)
(* another GeneralNote (a Chord), with a quarter length.                   *)
(***************************************************************************)
Note(m, q) == [kind |-> "note", midi |-> m, ql |-> q]
Rest(q) == [kind |-> "rest", midi |-> 0, ql |-> q]
Other(q) == [kind |-> "other", midi |-> 0, ql |-> q]

CMajor == [tonic |-> 0, mode |-> "major"]
DMajor == [tonic |-> 2, mode |-> "major"]
EMinor == [tonic |-> 4, mode |-> "minor"]
\* what measures_part0[0][4] holds when it is not a Key
NoKey == [tonic |-> 0, mode |-> "signature"]

SeqsUpTo(S, n) == UNION {[1..k -> S] : k \in 0..n}

Range(s) == {s[k] : k \in DOMAIN s}

(***************************************************************************)
(* str.join and str.split                                                  *)
(***************************************************************************)
RECURSIVE Join(_)
Join(tokens) ==
    IF tokens = <<>> THEN <<>>
    ELSE IF Len(tokens) = 1 THEN <<tokens[1]>>
    ELSE <<tokens[1], Blank>> \o Join(Tail(tokens))

\* text.split(): the maximal runs of atoms that are not blanks; a run is
\* itself a text (a token made of several adjacent atoms stays one token)
RECURSIVE SplitFrom(_, _, _)
SplitFrom(text, k, run) ==
    IF k > Len(text) THEN (IF run = <<>> THEN <<>> ELSE <<run>>)
    ELSE IF text[k] = Blank
         THEN (IF run = <<>> THEN <<>> ELSE <<run>>) \o SplitFrom(text, k + 1, <<>>)
         ELSE SplitFrom(text, k + 1, Append(run, text[k]))

Split(text) == SplitFrom(text, 1, <<>>)

\* s * n for a str s
RECURSIVE Repeat(_, _)
Repeat(s, n) == IF n <= 0 THEN <<>> ELSE s \o Repeat(s, n - 1)

\* a slip of DropLast: s[:-2]
DropLastTwo(s) == IF Len(s) <= 1 THEN <<>> ELSE SubSeq(s, 1, Len(s) - 2)

\* s[:-1]
DropLast(s) == IF Len(s) = 0 THEN s ELSE SubSeq(s, 1, Len(s) - 1)

(***************************************************************************)
(* has_acceptable_durations                                                *)
(***************************************************************************)
\* x in list
InList(x, list) == \E k \in 1..Len(list) : list[k] = x

\* a slip of DurationsFrom: only the first event is looked at
DurationsOfFirstOnly(events, k, durations) ==
    Len(events) = 0 \/ InList(events[1].ql, durations)

RECURSIVE DurationsFrom(_, _, _)
DurationsFrom(events, k, durations) ==
    IF k > Len(events) THEN TRUE
    ELSE IF ~InList(events[k].ql, durations) THEN FALSE
    ELSE DurationsFrom(events, k + 1, durations)

has_acceptable_durations(s, durations) == DurationsFrom(s.events, 1, durations)

(***************************************************************************)
(* encode_song                                                             *)
(***************************************************************************)
\* a slip of StepTokens: a carry marker for every step, the first included
StepTokensExtraCarry(symbol, steps) ==
    IF steps <= 0 THEN [err |-> "none", tokens |-> <<>>]
    ELSE IF symbol = Unbound THEN [err |-> "UnboundLocalError", tokens |-> <<>>]
    ELSE [err |-> "none", tokens |-> <<symbol>> \o [j \in 1..steps |-> Carry]]

\* the inner loop "for step in range(steps)": the symbol at step 0, the
\* carry marker afterwards; reading a symbol that was never bound raises
StepTokens(symbol, steps) ==
    IF steps <= 0 THEN [err |-> "none", tokens |-> <<>>]
    ELSE IF symbol = Unbound THEN [err |-> "UnboundLocalError", tokens |-> <<>>]
    ELSE [err |-> "none", tokens |-> <<symbol>> \o [j \in 1..(steps - 1) |-> Carry]]

\* the symbol after the if/elif of the loop body: a Note binds its midi
\* number, a Rest binds "r", anything else leaves the variable as it was
SymbolOf(event, previous) ==
    IF event.kind = "note" THEN ToString(event.midi)
    ELSE IF event.kind = "rest" THEN RestSymbol
    ELSE previous

\* int(event.duration.quarterLength / time_step)
Steps(ql, ts) == ql \div ts

RECURSIVE EncodeFrom(_, _, _, _, _)
EncodeFrom(events, k, symbol, ts, encoded_song) ==
    IF k > Len(events) THEN [err |-> "none", text |-> Join(encoded_song)]
    ELSE LET sym == SymbolOf(events[k], symbol)
             out == StepTokens(sym, Steps(events[k].ql, ts))
         IN  IF out.err # "none" THEN [err |-> out.err, text |-> <<>>]
             ELSE EncodeFrom(events, k + 1, sym, ts, encoded_song \o out.tokens)

encode_song(s, ts) == EncodeFrom(s.events, 1, Unbound, ts, <<>>)

(***************************************************************************)
(* transpose                                                               *)
(***************************************************************************)
\* the key the song is transposed from: the fifth element of the first
\* measure when it is a Key, the analysed key otherwise
ResolvedKey(s) == IF s.key.mode = "signature" THEN s.analysis ELSE s.key

\* Interval(key.tonic, Pitch("C")) for a major key, Interval(key.tonic,
\* Pitch("A")) for a minor one, in semitones, both pitches in the default octave
IntervalOf(key) ==
    IF key.mode = "major" THEN 0 - key.tonic ELSE 9 - key.tonic

TransposeEvent(event, interval) ==
    IF event.kind = "note" THEN [event EXCEPT !.midi = @ + interval] ELSE event

\* with a mode that is neither major nor minor, interval is never bound
transpose(s) ==
    LET key == ResolvedKey(s)
    IN  IF key.mode \notin {"major", "minor"}
        THEN [err |-> "UnboundLocalError", song |-> s]
        ELSE [err |-> "none",
              song |-> [s EXCEPT !.events =
                          [k \in DOMAIN s.events |->
                              TransposeEvent(s.events[k], IntervalOf(key))]]]

(***************************************************************************)
(* The inputs tried.                                                       *)
(***************************************************************************)
Pitches == {60, 62}

AllEvents ==
    {Note(m, q) : m \in Pitches, q \in 0..MaxQl}
        \cup {Rest(q) : q \in 0..MaxQl} \cup {Other(q) : q \in 0..MaxQl}

Score(key, analysis, events) == [key |-> key, analysis |-> analysis, events |-> events]

\* the scores given to the filter and to the encoder on their own
Scores == {Score(CMajor, CMajor, ev) : ev \in SeqsUpTo(AllEvents, MaxEvents)}

AllowedLists == {ACCEPTABLE_DURATIONS, <<>>, <<4, 2>>}

TimeSteps == {DefaultTimeStep, 4}

\* the scores of a raw corpus: a declared key or an analysed one, events
\* with an acceptable duration and with one that is not
CorpusEvents == {Note(62, 2), Note(64, 3), Rest(4), Other(2)}

CorpusKeys == {<<CMajor, CMajor>>, <<DMajor, DMajor>>, <<NoKey, EMinor>>}

CorpusSongs ==
    {Score(k[1], k[2], ev) : k \in CorpusKeys, ev \in SeqsUpTo(CorpusEvents, MaxEvents)}

EmptyDir == <<>>

(***************************************************************************)
(* The filter and the encoder called on one score.                         *)
(***************************************************************************)
Idle ==
    /\ songs = <<>> /\ idx = 0 /\ dataset = EmptyDir /\ raised = "none"
    /\ visited = <<>> /\ boundary = 0 /\ returned = <<>> /\ file_dataset = <<>>
    /\ origin = <<>> /\ mapping = <<>> /\ seq_len = 0 /\ int_songs = <<>>
    /\ inputs = <<>> /\ targets = <<>>

InitEncode ==
    /\ pc = "start"
    /\ song \in Scores
    /\ acceptable \in AllowedLists
    /\ time_step \in TimeSteps
    /\ accepted = FALSE
    /\ encoded = NoResult
    /\ Idle

Filter ==
    /\ pc = "start"
    /\ accepted' = has_acceptable_durations(song, acceptable)
    /\ pc' = "filtered"
    /\ UNCHANGED <<song, acceptable, time_step, encoded, songs, idx, dataset,
                   raised, visited, boundary, returned, file_dataset, origin,
                   mapping, seq_len, int_songs, inputs, targets>>

Encode ==
    /\ pc = "filtered"
    /\ encoded' = encode_song(song, time_step)
    /\ pc' = "encoded"
    /\ UNCHANGED <<song, acceptable, time_step, accepted, songs, idx, dataset,
                   raised, visited, boundary, returned, file_dataset, origin,
                   mapping, seq_len, int_songs, inputs, targets>>

NextEncode == Filter \/ Encode

SpecEncode == InitEncode /\ [][NextEncode]_vars

(***************************************************************************)
(* preprocess                                                              *)
(***************************************************************************)
Init ==
    /\ pc = "load"
    /\ song = Score(CMajor, CMajor, <<>>)
    /\ acceptable = ACCEPTABLE_DURATIONS
    /\ time_step = DefaultTimeStep
    /\ accepted = FALSE
    /\ encoded = NoResult
    /\ Idle

\* fp.write(encoded_song) at os.path.join(SAVE_DIR, str(i))
Save(dir, name, text) ==
    [n \in DOMAIN dir \cup {name} |-> IF n = name THEN text ELSE dir[n]]

\* load_songs_in_kern: every .krn file of the dataset, parsed
LoadSongs ==
    /\ pc = "load"
    /\ songs' \in SeqsUpTo(CorpusSongs, MaxSongs)
    /\ idx' = 0
    /\ pc' = "loop"
    /\ UNCHANGED <<song, acceptable, time_step, accepted, encoded, dataset,
                   raised, visited, boundary, returned, file_dataset, origin,
                   mapping, seq_len, int_songs, inputs, targets>>

\* one iteration of "for i, song in enumerate(songs)"
PreprocessSong ==
    /\ pc = "loop"
    /\ idx < Len(songs)
    /\ song' = songs[idx + 1]
    /\ accepted' = has_acceptable_durations(songs[idx + 1], ACCEPTABLE_DURATIONS)
    /\ IF ~accepted'
       THEN /\ idx' = idx + 1
            /\ UNCHANGED <<pc, encoded, dataset, raised>>
       ELSE /\ encoded' = encode_song(songs[idx + 1], DefaultTimeStep)
            /\ IF encoded'.err # "none"
               THEN /\ raised' = encoded'.err
                    /\ pc' = "aborted"
                    /\ UNCHANGED <<idx, dataset>>
               ELSE /\ dataset' = Save(dataset, idx, encoded'.text)
                    /\ idx' = idx + 1
                    /\ UNCHANGED <<pc, raised>>
    /\ UNCHANGED <<acceptable, time_step, songs, visited, boundary, returned,
                   file_dataset, origin, mapping, seq_len, int_songs, inputs,
                   targets>>

PreprocessReturn ==
    /\ pc = "loop"
    /\ idx = Len(songs)
    /\ pc' = "done"
    /\ UNCHANGED <<song, acceptable, time_step, accepted, encoded, songs, idx,
                   dataset, raised, visited, boundary, returned, file_dataset,
                   origin, mapping, seq_len, int_songs, inputs, targets>>

Next == LoadSongs \/ PreprocessSong \/ PreprocessReturn

Spec == Init /\ [][Next]_vars

(***************************************************************************)
(* create_single_file_dataset                                              *)
(***************************************************************************)
\* a slip of NewSongDelimiter: one delimiter short
ShortDelimiter(sequence_length) == Repeat(<<Delimiter, Blank>>, sequence_length - 1)

\* "/ " * sequence_length
NewSongDelimiter(sequence_length) == Repeat(<<Delimiter, Blank>>, sequence_length)

\* the orders in which a list can hold the members of a set
Orderings(S) == {v \in [1..Cardinality(S) -> S] : Range(v) = S}

\* the loop over the files: songs = songs + song + " " + new_song_delimiter
RECURSIVE Collate(_, _, _, _, _)
Collate(dir, order, k, delimiter, acc) ==
    IF k > Len(order) THEN acc
    ELSE Collate(dir, order, k + 1, delimiter,
                 acc \o dir[order[k]] \o <<Blank>> \o delimiter)

\* history of Collate: the file each atom was read from, -1 for an added atom
RECURSIVE CollateOrigin(_, _, _, _, _)
CollateOrigin(dir, order, k, delimiter, acc) ==
    IF k > Len(order) THEN acc
    ELSE CollateOrigin(dir, order, k + 1, delimiter,
                       acc \o [j \in 1..Len(dir[order[k]]) |-> order[k]]
                           \o [j \in 1..(1 + Len(delimiter)) |-> -1])

create_single_file_dataset(dir, order, sequence_length) ==
    DropLast(Collate(dir, order, 1, NewSongDelimiter(sequence_length), <<>>))

(***************************************************************************)
(* create_mapping                                                          *)
(***************************************************************************)
\* a slip of Vocabulary: list(songs), the repeated tokens kept
VocabularyWithRepeats(tokens) == {tokens}

\* list(set(songs)): the distinct tokens, in an order the set decides
Vocabulary(tokens) == Orderings(Range(tokens))

\* for i, symbol in enumerate(vocabulary): mapping[symbol] = i
Enumerate(vocabulary) ==
    [symbol \in Range(vocabulary) |->
        (CHOOSE i \in 1..Len(vocabulary) :
            /\ vocabulary[i] = symbol
            /\ \A j \in (i + 1)..Len(vocabulary) : vocabulary[j] # symbol) - 1]

(***************************************************************************)
(* convert_songs_to_int and generate_training_sequences                    *)
(***************************************************************************)
\* mappings[symbol] for every symbol of songs.split(); a symbol without an
\* entry raises KeyError
convert_songs_to_int(text, mappings) ==
    LET tokens == Split(text)
    IN  IF \E k \in 1..Len(tokens) : tokens[k] \notin DOMAIN mappings
        THEN [err |-> "KeyError", codes |-> <<>>]
        ELSE [err |-> "none", codes |-> [k \in 1..Len(tokens) |-> mappings[tokens[k]]]]

\* len(int_songs) - sequence_length, as range() uses it
NumSequences(codes, sequence_length) ==
    IF Len(codes) - sequence_length < 0 THEN 0 ELSE Len(codes) - sequence_length

\* a slip of Window: the slice starts one code late
WindowOneLate(codes, i, sequence_length) == SubSeq(codes, i + 2, i + sequence_length + 1)

\* int_songs[i:i+sequence_length], i counted from 0
Window(codes, i, sequence_length) == SubSeq(codes, i + 1, i + sequence_length)

\* int_songs[i+sequence_length], i counted from 0
Target(codes, i, sequence_length) == codes[i + sequence_length + 1]

\* keras.utils.to_categorical of one code
OneHot(code, num_classes) == [c \in 0..(num_classes - 1) |-> IF c = code THEN 1 ELSE 0]

to_categorical(windows, num_classes) ==
    [i \in 1..Len(windows) |->
        [j \in 1..Len(windows[i]) |-> OneHot(windows[i][j], num_classes)]]

(***************************************************************************)
(* The corpus assembled from SAVE_DIR, its vocabulary and its samples.     *)
(***************************************************************************)
\* the scores whose encodings are found in SAVE_DIR
SavedEvents == {Note(60, 2), Note(60, 4), Rest(2)}

SavedSongs == {Score(CMajor, CMajor, ev) : ev \in SeqsUpTo(SavedEvents, 1)}

Artifacts == {encode_song(s, DefaultTimeStep).text : s \in SavedSongs}

Directories == UNION {[0..(k - 1) -> Artifacts] : k \in 0..MaxFiles}

InitTrain ==
    /\ pc = "assemble"
    /\ song = Score(CMajor, CMajor, <<>>)
    /\ acceptable = ACCEPTABLE_DURATIONS
    /\ time_step = DefaultTimeStep
    /\ accepted = FALSE
    /\ encoded = NoResult
    /\ songs = <<>> /\ idx = 0 /\ raised = "none"
    /\ dataset \in Directories
    /\ visited = <<>> /\ boundary = 0 /\ returned = <<>> /\ file_dataset = <<>>
    /\ origin = <<>> /\ mapping = <<>> /\ seq_len = 0 /\ int_songs = <<>>
    /\ inputs = <<>> /\ targets = <<>>

CreateSingleFileDataset ==
    /\ pc = "assemble"
    /\ \E sequence_length \in 0..MaxSeqLen, order \in Orderings(DOMAIN dataset) :
        /\ boundary' = sequence_length
        /\ visited' = order
        /\ returned' = create_single_file_dataset(dataset, order, sequence_length)
        /\ file_dataset' = returned'
        /\ origin' = DropLast(CollateOrigin(dataset, order, 1,
                                            NewSongDelimiter(sequence_length), <<>>))
    /\ pc' = "assembled"
    /\ UNCHANGED <<song, acceptable, time_step, accepted, encoded, songs, idx,
                   dataset, raised, mapping, seq_len, int_songs, inputs, targets>>

CreateMapping ==
    /\ pc = "assembled"
    /\ \E vocabulary \in Vocabulary(Split(returned)) :
        mapping' = Enumerate(vocabulary)
    /\ pc' = "mapped"
    /\ UNCHANGED <<song, acceptable, time_step, accepted, encoded, songs, idx,
                   dataset, raised, visited, boundary, returned, file_dataset,
                   origin, seq_len, int_songs, inputs, targets>>

GenerateTrainingSequences ==
    /\ pc = "mapped"
    /\ \E sequence_length \in 0..MaxSeqLen :
        LET converted == convert_songs_to_int(file_dataset, mapping)
            codes == converted.codes
            num_sequences == NumSequences(codes, sequence_length)
            vocabulary_size == Cardinality(Range(codes))
        IN  /\ seq_len' = sequence_length
            /\ IF converted.err # "none"
               THEN /\ raised' = converted.err
                    /\ UNCHANGED <<int_songs, inputs, targets>>
               ELSE /\ int_songs' = codes
                    /\ IF vocabulary_size = 0
                       THEN /\ raised' = "ValueError"
                            /\ UNCHANGED <<inputs, targets>>
                       ELSE /\ inputs' = to_categorical(
                                   [i \in 1..num_sequences |->
                                       Window(codes, i - 1, sequence_length)],
                                   vocabulary_size)
                            /\ targets' = [i \in 1..num_sequences |->
                                              Target(codes, i - 1, sequence_length)]
                            /\ UNCHANGED raised
    /\ pc' = "generated"
    /\ UNCHANGED <<song, acceptable, time_step, accepted, encoded, songs, idx,
                   dataset, visited, boundary, returned, file_dataset, origin,
                   mapping>>

NextTrain == CreateSingleFileDataset \/ CreateMapping \/ GenerateTrainingSequences

SpecTrain == InitTrain /\ [][NextTrain]_vars

(***************************************************************************)
(* Properties of the filter and the encoder (SpecEncode).                  *)
(***************************************************************************)
\* how str() spells the midi numbers tried
Spelling(m) == CASE m = 60 -> "60" [] m = 62 -> "62" [] m = 64 -> "64"

\* the symbol the encoding shows for a Note or a Rest, as a token
SymbolToken(event) ==
    IF event.kind = "note" THEN <<Spelling(event.midi)>> ELSE <<RestSymbol>>

\* time steps taken by the events before the k-th
RECURSIVE StepsBefore(_, _)
StepsBefore(events, k) ==
    IF k <= 1 THEN 0 ELSE StepsBefore(events, k - 1) + (events[k - 1].ql \div DefaultTimeStep)

NotesAndRestsOnly(events) == \A k \in DOMAIN events : events[k].kind \in {"note", "rest"}

AllAcceptable(events) ==
    \A k \in DOMAIN events : events[k].ql \in Range(ACCEPTABLE_DURATIONS)

EncodedTokens == Split(encoded.text)

\* C2: with time_step 0.25, the encoding of a score of notes and rests whose
\* durations are all acceptable holds, for each event in order, the event's
\* symbol once and then (duration / time_step - 1) carry markers, so it has
\* one token per time step and total duration / time_step tokens.
C2_SymbolThenCarries ==
    (/\ pc = "encoded"
     /\ time_step = DefaultTimeStep
     /\ AllAcceptable(song.events)
     /\ NotesAndRestsOnly(song.events))
    => /\ encoded.err = "none"
       /\ Len(EncodedTokens) = StepsBefore(song.events, Len(song.events) + 1)
       /\ \A k \in DOMAIN song.events :
            LET at == StepsBefore(song.events, k)
                n == song.events[k].ql \div DefaultTimeStep
            IN  /\ n * DefaultTimeStep = song.events[k].ql
                /\ EncodedTokens[at + 1] = SymbolToken(song.events[k])
                /\ \A j \in 2..n : EncodedTokens[at + j] = <<Carry>>

\* C2 witness: a note of a whole quarter and a rest, encoded
C2_Witness ==
    /\ pc = "encoded"
    /\ time_step = DefaultTimeStep
    /\ song.events = <<Note(62, 8), Rest(4)>>
    /\ EncodedTokens = <<<<"62">>, <<Carry>>, <<Carry>>, <<Carry>>, <<RestSymbol>>, <<Carry>>>>

\* C3: has_acceptable_durations answers false exactly when some event has a
\* duration that is not in the list it was given, true otherwise (also for
\* a score without events), and leaves the score and the list as they were.
C3_FilterExactAndPure ==
    [][(pc = "start" /\ pc' = "filtered")
        => /\ accepted' = (~ \E k \in DOMAIN song.events :
                                song.events[k].ql \notin Range(acceptable))
           /\ song' = song
           /\ acceptable' = acceptable]_vars

\* C3 witness: a score rejected for its second event only
C3_Witness ==
    /\ pc = "filtered"
    /\ acceptable = ACCEPTABLE_DURATIONS
    /\ song.events = <<Note(60, 4), Rest(3)>>
    /\ accepted = FALSE

\* C9: encode_song fails with NonQuantizableDurationError whenever some
\* event's duration is not a whole multiple of time_step, and never returns
\* an encoding in which that duration was truncated or dropped.
C9_RaisesOnNonQuantizable ==
    (/\ pc = "encoded"
     /\ \E k \in DOMAIN song.events : song.events[k].ql % time_step # 0)
    => encoded.err = "NonQuantizableDurationError"

(***************************************************************************)
(* Properties of preprocess (Spec).                                        *)
(***************************************************************************)
\* C1: what is saved for an accepted score is the encoding of the
\* transposed score; a rejected score leaves no file and raises nothing.
C1_SavedIsEncodingOfTransposed ==
    /\ \A n \in DOMAIN dataset :
          dataset[n] = encode_song(transpose(songs[n + 1]).song, DefaultTimeStep).text
    /\ \A n \in 0..(idx - 1) :
          ~has_acceptable_durations(songs[n + 1], ACCEPTABLE_DURATIONS)
              => n \notin DOMAIN dataset
    /\ (raised # "none" => has_acceptable_durations(song, ACCEPTABLE_DURATIONS))

\* C8: a score whose encoding raises does not end the batch: when preprocess
\* is over, every accepted score that does not itself fail has its file.
C8_FailureDoesNotAbortBatch ==
    pc \in {"done", "aborted"}
    => \A n \in 0..(Len(songs) - 1) :
          (/\ has_acceptable_durations(songs[n + 1], ACCEPTABLE_DURATIONS)
           /\ encode_song(songs[n + 1], DefaultTimeStep).err = "none")
          => n \in DOMAIN dataset

(***************************************************************************)
(* Properties of the assembled corpus, the mapping and the samples         *)
(* (SpecTrain).                                                            *)
(***************************************************************************)
\* the tokens of the files in the order visited, each followed by a run of
\* n tokens spelled marker
RECURSIVE StreamFrom(_, _, _)
StreamFrom(k, marker, n) ==
    IF k > Len(visited) THEN <<>>
    ELSE Split(dataset[visited[k]]) \o [j \in 1..n |-> <<marker>>]
            \o StreamFrom(k + 1, marker, n)

RECURSIVE TokenCountFrom(_)
TokenCountFrom(k) ==
    IF k > Len(visited) THEN 0
    ELSE Len(Split(dataset[visited[k]])) + TokenCountFrom(k + 1)

Assembled == pc \in {"assembled", "mapped", "generated"}

\* C6 as stated: the boundary run after each file is made of carry markers.
C6_BoundaryOfCarryMarkers ==
    Assembled
    => /\ Split(returned) = StreamFrom(1, Carry, boundary)
       /\ Len(Split(returned)) = TokenCountFrom(1) + boundary * Len(visited)
       /\ file_dataset = returned

\* C6: the text returned holds, for each file in the order visited, the
\* file's tokens unchanged and in order, then boundary_length tokens "/"
\* (the new song delimiter, not the carry marker); the token count is the
\* files' token counts plus boundary_length per file, and the text written
\* is the text returned.
C6_BoundaryOfDelimiters ==
    Assembled
    => /\ Split(returned) = StreamFrom(1, Delimiter, boundary)
       /\ Len(Split(returned)) = TokenCountFrom(1) + boundary * Len(visited)
       /\ file_dataset = returned

\* C6 witness: two different files, visited in the second order, boundary 2
C6_Witness ==
    /\ pc = "assembled"
    /\ boundary = 2
    /\ visited = <<1, 0>>
    /\ dataset[0] = <<"60", Blank, Carry>>
    /\ dataset[1] = <<RestSymbol>>

\* C7: the text returned never starts or ends with a blank, also without
\* files, with empty files and with boundary_length 0.
C7_NoOuterWhitespace ==
    Assembled
    => \/ returned = <<>>
       \/ (returned[1] # Blank /\ returned[Len(returned)] # Blank)

\* C5: the mapping's keys are exactly the distinct tokens of the corpus and
\* its values exactly 0 .. V-1, V the number of distinct tokens: one code per
\* token, no code shared, no gap.
C5_DenseBijection ==
    pc \in {"mapped", "generated"}
    => LET tokens == Range(Split(returned))
           V == Cardinality(tokens)
       IN  /\ DOMAIN mapping = tokens
           /\ {mapping[t] : t \in tokens} = 0..(V - 1)
           /\ \A t, u \in tokens : mapping[t] = mapping[u] => t = u

\* C5 witness: four distinct tokens, numbered in an order that is not the
\* order of first appearance
C5_Witness ==
    /\ pc = "mapped"
    /\ Cardinality(DOMAIN mapping) = 4
    /\ Split(returned)[1] = <<"60">>
    /\ mapping[<<"60">>] = 3
    /\ mapping[<<Delimiter>>] = 0

\* C4: for 0 < L < len(codes) there are len(codes) - L samples; sample i has
\* the one-hot coding of codes[i : i+L] as context and the raw code
\* codes[i+L] as target.
C4_SlidingWindows ==
    (pc = "generated" /\ 0 < seq_len /\ seq_len < Len(int_songs))
    => /\ Len(inputs) = Len(int_songs) - seq_len
       /\ Len(targets) = Len(int_songs) - seq_len
       /\ \A i \in 0..(Len(int_songs) - seq_len - 1) :
            /\ Len(inputs[i + 1]) = seq_len
            /\ \A j \in 1..seq_len :
                 \A c \in DOMAIN inputs[i + 1][j] :
                    (inputs[i + 1][j][c] = 1) <=> (c = int_songs[i + j])
            /\ \A j \in 1..seq_len : int_songs[i + j] \in DOMAIN inputs[i + 1][j]
            /\ targets[i + 1] = int_songs[i + seq_len + 1]

\* C4 witness: several windows of length 2 over codes that differ
C4_Witness ==
    /\ pc = "generated"
    /\ seq_len = 2
    /\ Len(int_songs) >= 5
    /\ Len(targets) = Len(int_songs) - 2
    /\ int_songs[2] # int_songs[3]

\* history: the file each token of the corpus was read from (-1: delimiter)
RECURSIVE TokenOriginFrom(_, _, _)
TokenOriginFrom(text, k, inRun) ==
    IF k > Len(text) THEN <<>>
    ELSE IF text[k] = Blank THEN TokenOriginFrom(text, k + 1, FALSE)
    ELSE IF inRun THEN TokenOriginFrom(text, k + 1, TRUE)
    ELSE <<origin[k]>> \o TokenOriginFrom(text, k + 1, TRUE)

TokenOrigin == TokenOriginFrom(returned, 1, FALSE)

\* the files that the tokens of sample i (context and target) were read from
SongsOfSample(i) ==
    {TokenOrigin[p] : p \in (i + 1)..(i + seq_len + 1)} \ {-1}

\* C10: with boundary_length equal to the sequence length of the samples, no
\* sample (context and target) holds tokens of two songs.
C10_NoSampleMixesSongs ==
    (pc = "generated" /\ raised = "none" /\ boundary = seq_len)
    => \A i \in 0..(Len(targets) - 1) : Cardinality(SongsOfSample(i)) <= 1

\* C10 witness: two songs of one token, boundary and sequence length 1; the
\* samples run across the end of the first song and the start of the second
C10_Witness ==
    /\ pc = "generated"
    /\ raised = "none"
    /\ boundary = 1
    /\ seq_len = 1
    /\ Len(visited) = 2
    /\ TokenOrigin = <<visited[1], -1, visited[2], -1>>
    /\ Len(targets) = 3
    /\ SongsOfSample(0) = {visited[1]}
    /\ SongsOfSample(1) = {visited[2]}

====
